---- MODULE Spec2Model ----
(***************************************************************************)
(* The check step of the GitLab merge-request resource (src/src/check.rs): *)
(* one run of main reads the current version and the source               *)
(* configuration, lists the open merge requests, filters them, reduces     *)
(* them to the latest per merge request, splits the result against the     *)
(* state file (returned_shas / resurrected_shas), resurrects stuck         *)
(* versions under a fresh timestamp, saves the state and prints the        *)
(* versions.  Runs are sequential; the upstream project, the wall clock    *)
(* and the state file's volume change between runs.                        *)
(*                                                                         *)
(* Time is counted in seconds from 2040-01-01T00:00:00Z.                   *)
(***************************************************************************)
EXTENDS Integers, Sequences, FiniteSets, TLC

VARIABLES upstream, statuses, file, now, run, reported, resurrectedBefore,
          nRuns, nEvents, tmp, saving, observed, other

\* The steps of a save: tmp is the content of the temp path, saving the
\* position of the run that is saving, observed what the load of another run
\* found meanwhile, other a run that overlaps with it and its position.
saveVars == <<tmp, saving, observed, other>>

vars == <<upstream, statuses, file, now, run, reported, resurrectedBefore,
          nRuns, nEvents, tmp, saving, observed, other>>

----------------------------------------------------------------------------
(* Bounds of the model *)

\* Runs of the check step, and steps of its environment (changes upstream,
\* to the state file's volume, and of the clock), in one behaviour.
MaxRuns == 3
MaxEvents == 2

\* Runs in one behaviour of the resource over an unchanging project.
MaxStuckRuns == 4

----------------------------------------------------------------------------
(* Time and timestamps *)

Day == 24 * 60 * 60

\* .year() >= 2099 of a UTC instant: the instant is not before
\* 2099-01-01T00:00:00Z, 21550 days after 2040-01-01.
IsFarFuture(t) == t >= 21550 * Day

Abs(x) == IF x < 0 THEN 0 - x ELSE x

\* The wall clock of the first run, and the steps it advances by.
Now0 == 400 * Day
TickSteps == {60 * 60, 91 * Day}

\* A timestamp string "YYYY-MM-DDTHH:MM:SS[.000](Z|+02:00)": local is the
\* date-time it spells (as seconds), frac whether it carries milliseconds,
\* tz its UTC offset designator.
Zones == {"Z", "+02:00"}
DateStr(local, frac, tz) == [local |-> local, frac |-> frac, tz |-> tz]

OffsetOf(tz) == IF tz = "Z" THEN 0 ELSE 2 * 60 * 60

\* DateTime::<Utc>::from_str: the instant a timestamp string denotes.
ParseUtc(d) == d.local - OffsetOf(d.tz)

\* The characters of a timestamp string.  The nineteen characters of the
\* date-time are fixed-width digits, so they compare as the number they
\* spell and stand here as one element; the rest are character codes.
Chars(d) ==
    <<d.local>>
    \o (IF d.frac THEN <<46, 48, 48, 48>> ELSE <<>>)
    \o (IF d.tz = "Z" THEN <<90>> ELSE <<43, 48, 50, 58, 48, 48>>)

\* Ord::cmp of String: lexicographic order of the characters.
RECURSIVE LexLess(_, _)
LexLess(s, t) ==
    IF t = <<>> THEN FALSE
    ELSE IF s = <<>> THEN TRUE
    ELSE IF Head(s) # Head(t) THEN Head(s) < Head(t)
    ELSE LexLess(Tail(s), Tail(t))

StrLess(d, e) == LexLess(Chars(d), Chars(e))

\* Utc::now().to_rfc3339_opts(SecondsFormat::Millis, true)
ToRfc3339Millis(t) == DateStr(t, TRUE, "Z")

----------------------------------------------------------------------------
(* The upstream project *)

Iids == {1, 2}
Shas == {"a", "b", "c"}
NoSha == "null"

\* get_commit(project, sha).committed_date: commit a and commit b were made
\* an hour apart, b first, b by a committer two hours east of UTC; commit c
\* is a day younger.
CommitDate(sha) ==
    CASE sha = "a" -> DateStr(Now0 - 2 * Day, FALSE, "Z")
      [] sha = "b" -> DateStr(Now0 - 2 * Day + 60 * 60, FALSE, "+02:00")
      [] OTHER     -> DateStr(Now0 - 1 * Day, FALSE, "Z")

\* list_changed_paths(iid): the new_path of every diff of the request.
Diffs(iid) == IF iid = 1 THEN {"infra/main.tf"} ELSE {"docs/readme.md", "src/main.rs"}

\* glob::Pattern::matches for the patterns and paths of the model.
PatternMatches(pattern, path) ==
    \/ pattern = "infra/**" /\ path = "infra/main.tf"
    \/ pattern = "docs/**" /\ path = "docs/readme.md"

Version(iid, date, sha) == [iid |-> iid, committed_date |-> date, sha |-> sha]

Closed == [open |-> FALSE, sha |-> NoSha, updated_at |-> 0]

Range(s) == {s[i] : i \in DOMAIN s}

----------------------------------------------------------------------------
(* The source configuration (input.source and the environment) *)

Some(x) == <<x>>
None == <<>>
UnwrapOr(opt, default) == IF opt = None THEN default ELSE opt[1]

\* Url::parse: a URI without a scheme is relative and does not parse.
MalformedUri == "gitlab.example/group/project.git"
UrlParses(uri) == uri # MalformedUri

DefaultSource ==
    [uri |-> "https://gitlab.example/group/project.git",
     paths |-> None, max_age_days |-> None, commit_date_window_days |-> None,
     disable_resurrection |-> None, env_disable_resurrection |-> FALSE]

Sources == {DefaultSource}

\* Sources that disable resurrection: by the option disable_resurrection, by
\* the environment variable DISABLE_RESURRECTION.
DisabledSources ==
    {[DefaultSource EXCEPT !.disable_resurrection = Some(TRUE)],
     [DefaultSource EXCEPT !.env_disable_resurrection = TRUE]}

\* Sources that set the age and the path filter.
FilterSources ==
    {DefaultSource,
     [DefaultSource EXCEPT !.max_age_days = Some(1)],
     [DefaultSource EXCEPT !.paths = Some(<<"infra/**">>)],
     [DefaultSource EXCEPT !.paths = Some(<<"infra/**", "docs/**">>)],
     [DefaultSource EXCEPT !.paths = Some(<<>>)]}

max_age_days(src) == UnwrapOr(src.max_age_days, 90)

cutoff_date(src, t) == t - max_age_days(src) * Day

commit_date_window_days(src) ==
    UnwrapOr(src.commit_date_window_days, max_age_days(src))

\* The updated_after filter of the merge request query: the cutoff date
\* without a current version or when its date is a resurrection date (year
\* 2099 or later, or within two minutes of now), else the current version's
\* commit date less a margin of ten minutes.
updated_after(src, version, t) ==
    IF version = None THEN cutoff_date(src, t)
    ELSE LET previous_committed_date == ParseUtc(version[1].committed_date)
             is_far_future == IsFarFuture(previous_committed_date)
             is_recent_resurrection == Abs(t - previous_committed_date) < 120
         IN IF is_far_future \/ is_recent_resurrection THEN cutoff_date(src, t)
            ELSE previous_committed_date - 10 * 60

----------------------------------------------------------------------------
(* The state file *)

EmptyState == [returned_shas |-> {}, resurrected_shas |-> {}]

Missing == [kind |-> "missing", returned_shas |-> {}, resurrected_shas |-> {}]
Corrupt == [kind |-> "corrupt", returned_shas |-> {}, resurrected_shas |-> {}]
\* A file that holds a state but cannot be read (permission denied, I/O error).
Unreadable(f) == [f EXCEPT !.kind = "unreadable"]

Stored(state) ==
    [kind |-> "json", returned_shas |-> state.returned_shas,
     resurrected_shas |-> state.resurrected_shas]

\* Mutant: the sets of the file are used whether or not it could be read.
Load_unchecked(f) ==
    [returned_shas |-> f.returned_shas, resurrected_shas |-> f.resurrected_shas]

\* CheckState::load: the parsed file, or the default state when the file is
\* missing, unreadable or unparsable.
Load(f) ==
    IF f.kind = "json"
    THEN [returned_shas |-> f.returned_shas, resurrected_shas |-> f.resurrected_shas]
    ELSE EmptyState

was_returned(state, sha) == sha \in state.returned_shas
was_resurrected(state, sha) == sha \in state.resurrected_shas
\* Mutant: the resurrected set is replaced by the new shas, not extended.
mark_resurrected_replacing(state, shas) ==
    [state EXCEPT !.resurrected_shas = shas]

\* Mutant: the returned set is replaced by the new shas, not extended.
mark_returned_replacing(state, shas) ==
    [state EXCEPT !.returned_shas = shas]

mark_returned(state, shas) ==
    [state EXCEPT !.returned_shas = @ \cup shas]
\* Mutant: the resurrected shas are not recorded.
mark_resurrected_forgotten(state, shas) ==
    state

mark_resurrected(state, shas) ==
    [state EXCEPT !.resurrected_shas = @ \cup shas]

----------------------------------------------------------------------------
(* Candidate filter: the loop over the merge requests *)

HasSha(mr) == mr.sha # NoSha

PathMatch(src, mr) ==
    \/ src.paths = None
    \/ \E pattern \in Range(src.paths[1]) :
          \E path \in Diffs(mr.iid) : PatternMatches(pattern, path)

\* Mutant: the age of the head commit is compared with the cutoff.
AgeOk_by_commit(src, mr, t) ==
    ~(ParseUtc(CommitDate(mr.sha)) < cutoff_date(src, t))

AgeOk(src, mr, t) == ~(mr.updated_at < cutoff_date(src, t))

\* The calls to the adapter that the loop makes and that fail: the diffs of
\* a request with a head commit (asked for only under a path filter), the
\* commit of a request that passed the path filter.
LoopFailures(src, mrs, fails) ==
    {call \in fails :
        \E i \in DOMAIN mrs :
            /\ HasSha(mrs[i])
            /\ \/ src.paths # None /\ call = "diffs"
               \/ PathMatch(src, mrs[i]) /\ call = "commit"}

\* The kinds of calls the loop makes when none fails.
LoopCalls(src, mrs) ==
    {call \in {"diffs", "commit"} :
        \E i \in DOMAIN mrs :
            /\ HasSha(mrs[i])
            /\ \/ src.paths # None /\ call = "diffs"
               \/ PathMatch(src, mrs[i]) /\ call = "commit"}

all_versions(src, mrs, t) ==
    LET kept == SelectSeq(mrs, LAMBDA mr :
                    HasSha(mr) /\ PathMatch(src, mr) /\ AgeOk(src, mr, t))
    IN [i \in 1..Len(kept) |->
            Version(kept[i].iid, CommitDate(kept[i].sha), kept[i].sha)]

\* sort_by(|a, b| a.committed_date.cmp(&b.committed_date)): a stable sort on
\* the timestamp strings.
RECURSIVE SortByCommittedDate(_)
SortByCommittedDate(s) ==
    IF s = <<>> THEN <<>>
    ELSE LET front == SortByCommittedDate(SubSeq(s, 1, Len(s) - 1))
             v == s[Len(s)]
             k == Cardinality({i \in DOMAIN front :
                     ~StrLess(v.committed_date, front[i].committed_date)})
         IN SubSeq(front, 1, k) \o <<v>> \o SubSeq(front, k + 1, Len(front))

----------------------------------------------------------------------------
(* Latest-per-merge-request reducer *)

\* Mutant: the commit dates are compared as written.
should_include_as_written(v, current_version, window) ==
    LET candidate_dt == ParseUtc(v.committed_date)
        current_dt == ParseUtc(current_version.committed_date)
        is_newer == StrLess(current_version.committed_date, v.committed_date)
        is_different_mr == v.iid # current_version.iid
        is_current_mr == v.iid = current_version.iid
        time_diff_days == Abs(current_dt - candidate_dt) \div Day
        within_large_window == time_diff_days < window
    IN is_current_mr \/ is_newer \/ (is_different_mr /\ within_large_window)

should_include(v, current_version, window) ==
    LET candidate_dt == ParseUtc(v.committed_date)
        current_dt == ParseUtc(current_version.committed_date)
        is_newer == candidate_dt > current_dt
        is_different_mr == v.iid # current_version.iid
        is_current_mr == v.iid = current_version.iid
        time_diff_days == Abs(current_dt - candidate_dt) \div Day
        within_large_window == time_diff_days < window
    IN is_current_mr \/ is_newer \/ (is_different_mr /\ within_large_window)

\* Mutant: the first version seen of a merge request is kept.
RECURSIVE mr_latest_first(_)
mr_latest_first(newer_versions) ==
    IF newer_versions = <<>> THEN <<>>
    ELSE LET prior == mr_latest_first(SubSeq(newer_versions, 1, Len(newer_versions) - 1))
             v == newer_versions[Len(newer_versions)]
         IN IF v.iid \in DOMAIN prior THEN prior ELSE (v.iid :> v) @@ prior

\* The HashMap from iid to the latest version of that merge request.
RECURSIVE mr_latest(_)
mr_latest(newer_versions) ==
    IF newer_versions = <<>> THEN <<>>
    ELSE LET prior == mr_latest(SubSeq(newer_versions, 1, Len(newer_versions) - 1))
             v == newer_versions[Len(newer_versions)]
         IN IF v.iid \in DOMAIN prior
            THEN IF ParseUtc(v.committed_date) > ParseUtc(prior[v.iid].committed_date)
                 THEN [prior EXCEPT ![v.iid] = v]
                 ELSE prior
            ELSE (v.iid :> v) @@ prior

\* The orders into_values() may yield the entries of the map in.
IterationOrders ==
    {ord \in [1..Cardinality(Iids) -> Iids] :
        \A i, j \in DOMAIN ord : i # j => ord[i] # ord[j]}

\* Mutant: the current version is not put back.
filter_versions_latest_only(sorted_versions, version, window, ord) ==
    IF version = None THEN sorted_versions
    ELSE LET current_version == version[1]
             newer_versions == SelectSeq(sorted_versions, LAMBDA v :
                                   should_include(v, current_version, window))
             latest == mr_latest(newer_versions)
             keys == SelectSeq(ord, LAMBDA k : k \in DOMAIN latest)
             values == [i \in 1..Len(keys) |-> latest[keys[i]]]
         IN SortByCommittedDate(values)

\* Mutant: the current version replaces the entry of its merge request.
filter_versions_current_first(sorted_versions, version, window, ord) ==
    IF version = None THEN sorted_versions
    ELSE LET current_version == version[1]
             newer_versions == SelectSeq(sorted_versions, LAMBDA v :
                                   should_include(v, current_version, window))
             latest == mr_latest(newer_versions)
             with_current == (current_version.iid :> current_version) @@ latest
             keys == SelectSeq(ord, LAMBDA k : k \in DOMAIN with_current)
             values == [i \in 1..Len(keys) |-> with_current[keys[i]]]
         IN SortByCommittedDate(values)

filter_versions(sorted_versions, version, window, ord) ==
    IF version = None THEN sorted_versions
    ELSE LET current_version == version[1]
             newer_versions == SelectSeq(sorted_versions, LAMBDA v :
                                   should_include(v, current_version, window))
             latest == mr_latest(newer_versions)
             with_current == IF current_version.iid \in DOMAIN latest
                             THEN latest
                             ELSE (current_version.iid :> current_version) @@ latest
             keys == SelectSeq(ord, LAMBDA k : k \in DOMAIN with_current)
             values == [i \in 1..Len(keys) |-> with_current[keys[i]]]
         IN SortByCommittedDate(values)

----------------------------------------------------------------------------
(* Resurrection of stuck versions *)

\* Mutant: the environment variable is not looked at.
explicitly_disabled_option_only(src) ==
    UnwrapOr(src.disable_resurrection, FALSE)

explicitly_disabled(src) ==
    UnwrapOr(src.disable_resurrection, FALSE) \/ src.env_disable_resurrection

\* Mutant: only the explicit flag disables resurrection.
resurrection_enabled_no_cooldown(version, src, t) ==
    ~explicitly_disabled(src)

resurrection_enabled(version, src, t) ==
    IF version # None
    THEN LET previous_committed_date == ParseUtc(version[1].committed_date)
             is_far_future == IsFarFuture(previous_committed_date)
             time_diff_from_now == Abs(t - previous_committed_date)
             is_recent == time_diff_from_now < 120
         IN IF explicitly_disabled(src) THEN FALSE
            ELSE IF is_far_future \/ is_recent THEN FALSE
            ELSE TRUE
    ELSE ~explicitly_disabled(src)

IsCurrentSha(v, version) == version # None /\ v.sha = version[1].sha

\* The build-status lookup of a stuck version: TRUE when the merge request is
\* in the sha_to_mr map, the query succeeds and returns a status.
has_ci_status(v, mrs, stats, fails) ==
    /\ \E i \in DOMAIN mrs : mrs[i].sha = v.sha
    /\ "statuses" \notin fails
    /\ v.sha \in stats

\* Mutant: the guard does not ask whether the sha was resurrected before.
IsStuck_again(v, version, state, enabled) ==
    /\ ~IsCurrentSha(v, version)
    /\ was_returned(state, v.sha)
    /\ enabled

\* Mutant: the guard does not ask whether the sha was returned before.
IsStuck_any(v, version, state, enabled) ==
    /\ ~IsCurrentSha(v, version)
    /\ enabled
    /\ ~was_resurrected(state, v.sha)

\* The first branch of the partition loop: returned before, not current,
\* resurrection enabled, not resurrected before.
IsStuck(v, version, state, enabled) ==
    /\ ~IsCurrentSha(v, version)
    /\ was_returned(state, v.sha)
    /\ enabled
    /\ ~was_resurrected(state, v.sha)

\* The versions the partition loop resurrects, before they are re-dated.
to_resurrect(filtered, version, state, enabled, mrs, stats, fails) ==
    SelectSeq(filtered, LAMBDA v :
        IsStuck(v, version, state, enabled) /\ ~has_ci_status(v, mrs, stats, fails))

\* Mutant: the versions are re-dated to the far-future date of the earlier
\* release.
resurrected_versions_legacy(stuck, t) ==
    [i \in 1..Len(stuck) |->
        Version(stuck[i].iid, DateStr(21915 * Day - 1, FALSE, "Z"), stuck[i].sha)]

resurrected_versions(stuck, t) ==
    [i \in 1..Len(stuck) |->
        Version(stuck[i].iid, ToRfc3339Millis(t), stuck[i].sha)]

\* Mutant: the versions are kept whether or not they were returned before.
new_versions_unfiltered(filtered, version, state, enabled) ==
    filtered

\* The versions the partition loop keeps as they are: the ones with the
\* current sha and, past the two branches for returned shas, the new ones.
new_versions(filtered, version, state, enabled) ==
    SelectSeq(filtered, LAMBDA v :
        \/ IsCurrentSha(v, version)
        \/ /\ ~IsStuck(v, version, state, enabled)
           /\ ~was_returned(state, v.sha))

\* Mutant: only the first new sha is marked as returned.
new_shas_to_save_first(new, version) ==
    LET shas == {j \in DOMAIN new : ~IsCurrentSha(new[j], version)}
    IN {new[j].sha : j \in {k \in shas : \A m \in shas : k <= m}}

\* Mutant: the current sha is marked as returned with the others.
new_shas_to_save_all(new, version) ==
    {new[i].sha : i \in DOMAIN new}

new_shas_to_save(new, version) ==
    {new[i].sha : i \in {j \in DOMAIN new : ~IsCurrentSha(new[j], version)}}

----------------------------------------------------------------------------
(* One run of main *)

\* Mutant: the empty list is printed before the adapter is called, so a run
\* that fails has written a payload.
Result_printed_first(exit, stdout, src, version, mrs, stats, stateFile, t) ==
    [exit |-> exit, stdout |-> IF exit = "fail" THEN << <<>> >> ELSE stdout,
     source |-> src, version |-> version,
     mrs |-> mrs, stats |-> stats, load |-> stateFile.kind,
     loaded |-> Load(stateFile), at |-> t, failed |-> {}, calls |-> {},
     candidates |-> <<>>, filtered |-> <<>>, new |-> <<>>, resurrected |-> <<>>,
     enabled |-> FALSE, state |-> Load(stateFile), save |-> FALSE, saved |-> FALSE]

\* What a run did; load is what CheckState::load found at the state file's
\* path, calls are the kinds of adapter calls the run made, failed those of
\* them that failed.
Result(exit, stdout, src, version, mrs, stats, stateFile, t) ==
    [exit |-> exit, stdout |-> stdout, source |-> src, version |-> version,
     mrs |-> mrs, stats |-> stats, load |-> stateFile.kind,
     loaded |-> Load(stateFile), at |-> t, failed |-> {}, calls |-> {},
     candidates |-> <<>>, filtered |-> <<>>, new |-> <<>>, resurrected |-> <<>>,
     enabled |-> FALSE, state |-> Load(stateFile), save |-> FALSE, saved |-> FALSE]

\* main, from the merge request query to the final println.  stdout holds
\* the payloads written (none, or one list of versions).
Main(src, version, opened, stats, stateFile, t, fails, ord, saveOk) ==
    LET loaded == Load(stateFile)
        mrs == SelectSeq(opened, LAMBDA mr :
                   mr.updated_at >= updated_after(src, version, t))
        base(exit, stdout) == Result(exit, stdout, src, version, mrs, stats, stateFile, t)
    IN
    IF "list" \in fails
    THEN [base("fail", <<>>) EXCEPT !.failed = {"list"}, !.calls = {"auth", "list"}]
    ELSE IF mrs = <<>>
         THEN [base("ok", << <<>> >>) EXCEPT !.calls = {"auth", "list"}]
    ELSE IF LoopFailures(src, mrs, fails) # {}
         THEN [base("fail", <<>>) EXCEPT
                  !.failed = LoopFailures(src, mrs, fails),
                  !.calls = {"auth", "list"} \cup
                            (IF "diffs" \in LoopFailures(src, mrs, fails)
                             THEN {"diffs"} ELSE LoopCalls(src, mrs))]
    ELSE
    LET sorted == SortByCommittedDate(all_versions(src, mrs, t))
        filtered == filter_versions(sorted, version, commit_date_window_days(src), ord)
        enabled == resurrection_enabled(version, src, t)
        stuck == to_resurrect(filtered, version, loaded, enabled, mrs, stats, fails)
        resurrected == resurrected_versions(stuck, t)
        new == new_versions(filtered, version, loaded, enabled)
        new_shas == new_shas_to_save(new, version)
        resurrected_shas == {stuck[i].sha : i \in DOMAIN stuck}
        final_versions == SortByCommittedDate(resurrected \o new)
        state == mark_returned(mark_resurrected(loaded, resurrected_shas), new_shas)
        save == new_shas # {} \/ resurrected_shas # {}
        lookups == SelectSeq(filtered, LAMBDA v : IsStuck(v, version, loaded, enabled))
    IN [base("ok", <<final_versions>>) EXCEPT
           !.failed = IF lookups # <<>> THEN fails \cap {"statuses"} ELSE {},
           !.calls = {"auth", "list"} \cup LoopCalls(src, mrs)
                        \cup (IF lookups # <<>> THEN {"statuses"} ELSE {}),
           !.candidates = sorted,
           !.filtered = filtered, !.new = new, !.resurrected = resurrected,
           !.enabled = enabled, !.state = state, !.save = save,
           !.saved = save /\ saveOk]

\* A committed_date without a UTC offset, which DateTime::<Utc>::from_str
\* rejects.
Unparsable == DateStr(Now0 - Day, FALSE, "")
Parses(d) == d.tz # ""

\* main from its first line: the URI is parsed, the client is built (which
\* authenticates against the server), the current version's date is parsed,
\* and the rest is Main.
Start(src, version, opened, stats, stateFile, t, fails, ord, saveOk) ==
    IF ~UrlParses(src.uri)
    THEN Result("fail", <<>>, src, version, <<>>, stats, stateFile, t)
    ELSE IF "auth" \in fails
    THEN [Result("fail", <<>>, src, version, <<>>, stats, stateFile, t)
             EXCEPT !.failed = {"auth"}, !.calls = {"auth"}]
    ELSE IF version # None /\ ~Parses(version[1].committed_date)
    THEN [Result("fail", <<>>, src, version, <<>>, stats, stateFile, t)
             EXCEPT !.calls = {"auth"}]
    ELSE Main(src, version, opened, stats, stateFile, t, fails, ord, saveOk)

\* The merge requests the adapter lists: the open ones, most recently
\* updated first (order_by UpdatedAt, Descending).
Listings(up) ==
    LET open == {i \in Iids : up[i].open}
    IN {[k \in DOMAIN s |-> [iid |-> s[k], sha |-> up[s[k]].sha,
                             updated_at |-> up[s[k]].updated_at]] :
           s \in {q \in [1..Cardinality(open) -> open] :
                    /\ \A i, j \in DOMAIN q : i # j => q[i] # q[j]
                    /\ \A i, j \in DOMAIN q :
                          i < j => up[q[i]].updated_at >= up[q[j]].updated_at}}

Output(r) == IF r.stdout = <<>> THEN <<>> ELSE r.stdout[1]
OutputSet(r) == Range(Output(r))

\* The versions the orchestrator may hand to a run as its current version:
\* none, one that a run has output, or the version an earlier release of the
\* resource resurrected under the far-future date 2099-12-31T23:59:59Z.
LegacyResurrected == Version(1, DateStr(21915 * Day - 1, FALSE, "Z"), "a")

ReportedVersions == {None} \cup {Some(v) : v \in reported \cup OutputSet(run)}

CurrentVersions == ReportedVersions \cup {Some(LegacyResurrected)}

AdapterCalls == {"list", "diffs", "commit", "statuses"}

NoRun == Result("none", <<>>, DefaultSource, None, <<>>, {}, Missing, 0)

\* No save is under way.
Nothing == [kind |-> "none", state |-> EmptyState]
NoOther == [run |-> NoRun, saving |-> "idle"]
NoSave ==
    tmp = Missing /\ saving = "idle" /\ observed = Nothing /\ other = NoOther

----------------------------------------------------------------------------
(* Actions *)

\* Mutant: the state is written in place, and a failed write leaves a
\* truncated file behind.
Finish_in_place(r) ==
    /\ run' = r
    /\ file' = IF r.saved THEN Stored(r.state) ELSE IF r.save THEN Corrupt ELSE file
    /\ reported' = reported \cup OutputSet(run)
    /\ resurrectedBefore' = resurrectedBefore \cup {v.sha : v \in Range(run.resurrected)}
    /\ nRuns' = nRuns + 1
    /\ UNCHANGED <<upstream, statuses, now, nEvents, saveVars>>

\* Mutant: every completed run writes the state file.
Finish_always_writes(r) ==
    /\ run' = r
    /\ file' = IF r.exit = "ok" THEN Stored(r.state) ELSE file
    /\ reported' = reported \cup OutputSet(run)
    /\ resurrectedBefore' = resurrectedBefore \cup {v.sha : v \in Range(run.resurrected)}
    /\ nRuns' = nRuns + 1
    /\ UNCHANGED <<upstream, statuses, now, nEvents, saveVars>>

Finish(r) ==
    /\ run' = r
    /\ file' = IF r.saved THEN Stored(r.state) ELSE file
    /\ reported' = reported \cup OutputSet(run)
    /\ resurrectedBefore' = resurrectedBefore \cup {v.sha : v \in Range(run.resurrected)}
    /\ nRuns' = nRuns + 1
    /\ UNCHANGED <<upstream, statuses, now, nEvents, saveVars>>

\* A run in which every adapter call and the save succeed.
Check ==
    /\ nRuns < MaxRuns
    /\ \E version \in CurrentVersions, mrs \in Listings(upstream), ord \in IterationOrders :
        Finish(Main(run.source, version, mrs, statuses, file, now, {}, ord, TRUE))

\* A run in which the calls of one kind to the adapter fail.
CheckAdapterFailure ==
    /\ nRuns < MaxRuns
    /\ \E version \in CurrentVersions, mrs \in Listings(upstream), ord \in IterationOrders,
       call \in AdapterCalls :
        LET r == Main(run.source, version, mrs, statuses, file, now, {call}, ord, TRUE)
        IN r.failed # {} /\ Finish(r)

\* A run whose save fails (temp file not writable, rename refused).
CheckSaveFailure ==
    /\ nRuns < MaxRuns
    /\ \E version \in CurrentVersions, mrs \in Listings(upstream), ord \in IterationOrders :
        LET r == Main(run.source, version, mrs, statuses, file, now, {}, ord, FALSE)
        IN r.save /\ Finish(r)

Event ==
    /\ nEvents < MaxEvents
    /\ nEvents' = nEvents + 1
    /\ UNCHANGED <<run, reported, resurrectedBefore, nRuns, saveVars>>

\* A merge request is opened on, or pushed to, a head commit.
Push ==
    \E iid \in Iids, sha \in Shas :
        /\ upstream[iid].sha # sha
        /\ upstream' = [upstream EXCEPT ![iid] =
                            [open |-> TRUE, sha |-> sha, updated_at |-> now]]
        /\ Event
        /\ UNCHANGED <<statuses, file, now>>

\* The source branch of an open merge request is deleted: its sha is null.
DeleteSourceBranch ==
    \E iid \in Iids :
        /\ upstream[iid].open /\ upstream[iid].sha # NoSha
        /\ upstream' = [upstream EXCEPT ![iid] =
                            [open |-> TRUE, sha |-> NoSha, updated_at |-> now]]
        /\ Event
        /\ UNCHANGED <<statuses, file, now>>

\* A merge request is merged or closed.
CloseMergeRequest ==
    \E iid \in Iids :
        /\ upstream[iid].open
        /\ upstream' = [upstream EXCEPT ![iid] = Closed]
        /\ Event
        /\ UNCHANGED <<statuses, file, now>>

\* A build status is reported on a commit.
ReportStatus ==
    \E sha \in Shas :
        /\ sha \notin statuses
        /\ \E iid \in Iids : upstream[iid].sha = sha
        /\ statuses' = statuses \cup {sha}
        /\ Event
        /\ UNCHANGED <<upstream, file, now>>

\* The volume holding the state file is collected.
LoseState ==
    /\ file.kind = "json"
    /\ file' = Missing
    /\ Event
    /\ UNCHANGED <<upstream, statuses, now>>

\* The state file is left unparsable.
CorruptState ==
    /\ file.kind = "json"
    /\ file' = Corrupt
    /\ Event
    /\ UNCHANGED <<upstream, statuses, now>>

\* The state file stops being readable by the resource.
DenyRead ==
    /\ file.kind = "json"
    /\ file' = Unreadable(file)
    /\ Event
    /\ UNCHANGED <<upstream, statuses, now>>

\* Time passes.
Tick ==
    \E d \in TickSteps :
        /\ now' = now + d
        /\ Event
        /\ UNCHANGED <<upstream, statuses, file>>

Init ==
    /\ upstream = [i \in Iids |-> Closed]
    /\ statuses = {}
    /\ file = Missing
    /\ now = Now0
    /\ \E src \in Sources : run = [NoRun EXCEPT !.source = src]
    /\ reported = {}
    /\ resurrectedBefore = {}
    /\ nRuns = 0
    /\ nEvents = 0
    /\ NoSave

Next ==
    \/ Check
    \/ CheckAdapterFailure
    \/ CheckSaveFailure
    \/ Push
    \/ DeleteSourceBranch
    \/ CloseMergeRequest
    \/ ReportStatus
    \/ LoseState
    \/ CorruptState
    \/ DenyRead
    \/ Tick

Spec == Init /\ [][Next]_vars

\* The runs of a resource whose state file is never lost, whose saves and
\* adapter calls all succeed, and whose current version is always one the
\* resource itself has output.
CheckIntact ==
    /\ nRuns < MaxRuns
    /\ \E version \in ReportedVersions, mrs \in Listings(upstream), ord \in IterationOrders :
        Finish(Main(run.source, version, mrs, statuses, file, now, {}, ord, TRUE))

NextIntact ==
    \/ CheckIntact
    \/ Push
    \/ DeleteSourceBranch
    \/ CloseMergeRequest
    \/ ReportStatus
    \/ Tick

SpecIntact == Init /\ [][NextIntact]_vars

\* The runs of a resource configured with resurrection disabled.
InitDisabled ==
    /\ upstream = [i \in Iids |-> Closed]
    /\ statuses = {}
    /\ file = Missing
    /\ now = Now0
    /\ \E src \in DisabledSources : run = [NoRun EXCEPT !.source = src]
    /\ reported = {}
    /\ resurrectedBefore = {}
    /\ nRuns = 0
    /\ nEvents = 0
    /\ NoSave

SpecDisabled == InitDisabled /\ [][Next]_vars

\* The runs of a resource over an unchanging project in which merge request 1
\* is open on commit a, no commit has a build status, and the orchestrator
\* never makes commit a the current version.
InitStuck ==
    /\ \E mr2 \in {Closed} \cup {[open |-> TRUE, sha |-> sha, updated_at |-> Now0] :
                                    sha \in Shas \ {"a"}} :
          upstream = [i \in Iids |->
                        IF i = 1 THEN [open |-> TRUE, sha |-> "a", updated_at |-> Now0]
                        ELSE mr2]
    /\ statuses = {}
    /\ file = Missing
    /\ now = Now0
    /\ run = NoRun
    /\ reported = {}
    /\ resurrectedBefore = {}
    /\ nRuns = 0
    /\ nEvents = 0
    /\ NoSave

CheckStuck ==
    /\ nRuns < MaxStuckRuns
    /\ \E version \in ReportedVersions, mrs \in Listings(upstream), ord \in IterationOrders :
        /\ version # None => version[1].sha # "a"
        /\ Finish(Main(run.source, version, mrs, statuses, file, now, {}, ord, TRUE))

NextStuck ==
    \/ CheckStuck
    \/ Tick

SpecStuck == InitStuck /\ [][NextStuck]_vars

\* The runs of a resource over an unchanging project (merge requests and
\* build statuses are fixed) whose saves succeed and whose current version is
\* always one the resource itself has output; status lookups may fail.
InitSettle ==
    /\ upstream \in [Iids -> {Closed} \cup {[open |-> TRUE, sha |-> sha, updated_at |-> Now0] :
                                               sha \in Shas}]
    /\ \E i \in Iids : upstream[i].open
    /\ statuses \in {{}, {"a"}}
    /\ file = Missing
    /\ now = Now0
    /\ run = NoRun
    /\ reported = {}
    /\ resurrectedBefore = {}
    /\ nRuns = 0
    /\ nEvents = 0
    /\ NoSave

CheckSettle ==
    /\ nRuns < MaxStuckRuns
    /\ \E version \in ReportedVersions, mrs \in Listings(upstream), ord \in IterationOrders,
         fails \in {{}, {"statuses"}} :
        Finish(Main(run.source, version, mrs, statuses, file, now, fails, ord, TRUE))

NextSettle ==
    \/ CheckSettle
    \/ Tick

SpecSettle == InitSettle /\ [][NextSettle]_vars

\* One run, without a current version, over merge requests of any age under
\* sources that set the age and the path filter.
UpdatedAts ==
    {Now0, Now0 - Day, Now0 - Day - 1,
     Now0 - 90 * Day, Now0 - 90 * Day - 1, Now0 - 95 * Day}

InitFilter ==
    /\ upstream \in [Iids -> {Closed} \cup
                        {[open |-> TRUE, sha |-> sha, updated_at |-> at] :
                            sha \in Shas \cup {NoSha}, at \in UpdatedAts}]
    /\ statuses = {}
    /\ file = Missing
    /\ now = Now0
    /\ \E src \in FilterSources : run = [NoRun EXCEPT !.source = src]
    /\ reported = {}
    /\ resurrectedBefore = {}
    /\ nRuns = 0
    /\ nEvents = 0
    /\ NoSave

\* A version of a commit made 200 days ago that has since been replaced.
OldVersion == Version(1, DateStr(Now0 - 200 * Day, FALSE, "Z"), "old")

CheckFilter ==
    /\ nRuns = 0
    /\ \E version \in {None, Some(OldVersion)}, mrs \in Listings(upstream),
          ord \in IterationOrders :
        Finish(Main(run.source, version, mrs, statuses, file, now, {}, ord, TRUE))

SpecFilter == InitFilter /\ [][CheckFilter]_vars

----------------------------------------------------------------------------
(* Runs on sources and current versions that may be malformed *)

ConfigSources == {DefaultSource, [DefaultSource EXCEPT !.uri = MalformedUri]}

InitConfig ==
    /\ upstream \in [Iids -> {Closed} \cup
                        {[open |-> TRUE, sha |-> sha, updated_at |-> Now0] :
                            sha \in {"a", "b"}}]
    /\ statuses = {}
    /\ file = Missing
    /\ now = Now0
    /\ \E src \in ConfigSources : run = [NoRun EXCEPT !.source = src]
    /\ reported = {}
    /\ resurrectedBefore = {}
    /\ nRuns = 0
    /\ nEvents = 0
    /\ NoSave

\* The current versions handed to a run: those of ReportedVersions, and one
\* of them with its committed_date cut short.
GivenVersions ==
    ReportedVersions \cup
        {Some([v[1] EXCEPT !.committed_date = Unparsable]) :
            v \in ReportedVersions \ {None}}

CheckConfig ==
    /\ nRuns < MaxRuns
    /\ \E version \in GivenVersions, mrs \in Listings(upstream),
          ord \in IterationOrders, fails \in {{}, {"auth"}} :
        Finish(Start(run.source, version, mrs, statuses, file, now, fails, ord, TRUE))

SpecConfig == InitConfig /\ [][CheckConfig]_vars

\* The runs of the resource when the clock has moved on between any two
\* runs: a run starts only at a time later than the time of the run before.
Apart == run.exit = "none" \/ now > run.at

\* An hour passes after a run.
Tock ==
    /\ run.exit # "none"
    /\ now = run.at
    /\ now' = now + 60 * 60
    /\ UNCHANGED <<upstream, statuses, file, run, reported, resurrectedBefore,
                   nRuns, nEvents, saveVars>>

NextApart ==
    \/ Apart /\ Check
    \/ Apart /\ CheckAdapterFailure
    \/ Apart /\ CheckSaveFailure
    \/ Tock
    \/ Push
    \/ DeleteSourceBranch
    \/ CloseMergeRequest
    \/ ReportStatus
    \/ LoseState
    \/ CorruptState
    \/ DenyRead
    \/ Tick

SpecApart == Init /\ [][NextApart]_vars

----------------------------------------------------------------------------
(* The reducer on its own *)

\* Candidates in one list.
MaxCandidates == 3

\* The commit date of the current version, and the commit dates of the
\* candidates: the same date, the same instant written two hours east of UTC,
\* an hour later, and 89, 90 and 91 days earlier.
D0 == Now0 - Day

CandidateDates ==
    {DateStr(D0, FALSE, "Z"),
     DateStr(D0 + 2 * 60 * 60, FALSE, "+02:00"),
     DateStr(D0 + 60 * 60, FALSE, "Z"),
     DateStr(D0 - 89 * Day, FALSE, "Z"),
     DateStr(D0 - 90 * Day, FALSE, "Z"),
     DateStr(D0 - 91 * Day, FALSE, "Z")}

\* The head commits behind the candidates: one commit per date.
ShaAt(date) ==
    IF date = DateStr(D0, FALSE, "Z") THEN "a"
    ELSE IF ParseUtc(date) >= D0 THEN "b"
    ELSE "c"

CandidateVersions ==
    {Version(iid, date, ShaAt(date)) : iid \in Iids, date \in CandidateDates}

CandidateLists ==
    {SortByCommittedDate(s) :
        s \in {q \in UNION {[1..n -> CandidateVersions] : n \in 0..MaxCandidates} :
                 \A i, j \in DOMAIN q : i # j => q[i] # q[j]}}

ReduceSources ==
    {DefaultSource,
     [DefaultSource EXCEPT !.commit_date_window_days = Some(1)],
     [DefaultSource EXCEPT !.commit_date_window_days = Some(0)],
     [DefaultSource EXCEPT !.max_age_days = Some(1)]}

InitReduce ==
    /\ upstream = [i \in Iids |-> Closed]
    /\ statuses = {}
    /\ file = Missing
    /\ now = Now0
    /\ \E src \in ReduceSources, iid \in Iids, candidates \in CandidateLists :
          run = [NoRun EXCEPT !.source = src,
                              !.version = Some(Version(iid, DateStr(D0, FALSE, "Z"), "a")),
                              !.candidates = candidates]
    /\ reported = {}
    /\ resurrectedBefore = {}
    /\ nRuns = 0
    /\ nEvents = 0
    /\ NoSave

\* The reducer is applied to the candidates.
Reduce ==
    /\ run.exit = "none"
    /\ \E ord \in IterationOrders :
          run' = [run EXCEPT
                    !.exit = "reduced",
                    !.filtered = filter_versions(run.candidates, run.version,
                                     commit_date_window_days(run.source), ord)]
    /\ nRuns' = nRuns + 1
    /\ UNCHANGED <<upstream, statuses, file, now, reported, resurrectedBefore,
                   nEvents, saveVars>>

SpecReduce == InitReduce /\ [][Reduce]_vars

----------------------------------------------------------------------------
(* A run in the order of its effects, which may be stopped between them *)

InitStop ==
    /\ upstream \in [Iids -> {Closed} \cup {[open |-> TRUE, sha |-> sha, updated_at |-> Now0] :
                                               sha \in Shas}]
    /\ \E i \in Iids : upstream[i].open
    /\ statuses = {}
    /\ file = Missing
    /\ now = Now0
    /\ run = NoRun
    /\ reported = {}
    /\ resurrectedBefore = {}
    /\ nRuns = 0
    /\ nEvents = 0
    /\ NoSave

\* main up to the marking of the state: nothing is saved or printed yet.
Compute ==
    /\ nRuns < MaxRuns
    /\ saving = "idle"
    /\ \E version \in ReportedVersions, mrs \in Listings(upstream), ord \in IterationOrders :
        LET r == Main(run.source, version, mrs, statuses, file, now, {}, ord, TRUE)
        IN run' = [r EXCEPT !.exit = "running", !.stdout = <<>>, !.saved = FALSE]
    /\ saving' = "save"
    /\ reported' = reported \cup OutputSet(run)
    /\ resurrectedBefore' = resurrectedBefore \cup {v.sha : v \in Range(run.resurrected)}
    /\ nRuns' = nRuns + 1
    /\ UNCHANGED <<upstream, statuses, file, now, nEvents, tmp, observed, other>>

\* if !new_shas_to_save.is_empty() || !resurrected_shas.is_empty() { state.save() }
SaveState ==
    /\ saving = "save"
    /\ file' = IF run.save THEN Stored(run.state) ELSE file
    /\ run' = [run EXCEPT !.saved = run.save]
    /\ saving' = "print"
    /\ UNCHANGED <<upstream, statuses, now, reported, resurrectedBefore,
                   nRuns, nEvents, tmp, observed, other>>

\* println!("{}", serde_json::to_string_pretty(&final_versions)?)
PrintOutput ==
    /\ saving = "print"
    /\ run' = [run EXCEPT
                  !.exit = "ok",
                  !.stdout = <<SortByCommittedDate(run.resurrected \o run.new)>>]
    /\ saving' = "idle"
    /\ UNCHANGED <<upstream, statuses, file, now, reported, resurrectedBefore,
                   nRuns, nEvents, tmp, observed, other>>

\* The process is stopped before the save or before the println.
Stopped ==
    /\ saving \in {"save", "print"}
    /\ run' = [run EXCEPT !.exit = "fail"]
    /\ saving' = "idle"
    /\ UNCHANGED <<upstream, statuses, file, now, reported, resurrectedBefore,
                   nRuns, nEvents, tmp, observed, other>>

NextStop == Compute \/ SaveState \/ PrintOutput \/ Stopped

SpecStop == InitStop /\ [][NextStop]_vars

----------------------------------------------------------------------------
(* A save, step by step, and the load of another run that races with it *)

InitSave ==
    /\ upstream \in [Iids -> {Closed} \cup {[open |-> TRUE, sha |-> sha, updated_at |-> Now0] :
                                               sha \in Shas}]
    /\ \E i \in Iids : upstream[i].open
    /\ statuses = {}
    /\ file = Missing
    /\ now = Now0
    /\ run = NoRun
    /\ reported = {}
    /\ resurrectedBefore = {}
    /\ nRuns = 0
    /\ nEvents = 0
    /\ NoSave

\* main up to the call of save; a run with nothing to save is over.
CheckUntilSave ==
    /\ nRuns < MaxRuns
    /\ saving = "idle"
    /\ \E version \in ReportedVersions, mrs \in Listings(upstream), ord \in IterationOrders :
        LET r == Main(run.source, version, mrs, statuses, file, now, {}, ord, FALSE)
        IN /\ run' = r
           /\ saving' = IF r.save THEN "write" ELSE "idle"
    /\ reported' = reported \cup OutputSet(run)
    /\ resurrectedBefore' = resurrectedBefore \cup {v.sha : v \in Range(run.resurrected)}
    /\ nRuns' = nRuns + 1
    /\ observed' = Nothing
    /\ UNCHANGED <<upstream, statuses, file, now, nEvents, tmp, other>>

\* Mutant: the state is written to the canonical path.
CreateTemp_in_place ==
    /\ saving = "write"
    /\ file' = Corrupt
    /\ saving' = "writing"
    /\ UNCHANGED <<upstream, statuses, tmp, now, run, reported, resurrectedBefore,
                   nRuns, nEvents, observed, other>>

\* fs::write(&temp_path, json) creates or truncates the temp file; until the
\* last byte is written the temp file holds a part of the JSON text.
CreateTemp ==
    /\ saving = "write"
    /\ tmp' = Corrupt
    /\ saving' = "writing"
    /\ UNCHANGED <<upstream, statuses, file, now, run, reported, resurrectedBefore,
                   nRuns, nEvents, observed, other>>

\* fs::write(&temp_path, json) writes the rest of the JSON text.
WriteTemp ==
    /\ saving = "writing"
    /\ tmp' = Stored(run.state)
    /\ saving' = "rename"
    /\ UNCHANGED <<upstream, statuses, file, now, run, reported, resurrectedBefore,
                   nRuns, nEvents, observed, other>>

\* fs::rename(&temp_path, &path)
Rename ==
    /\ saving = "rename"
    /\ file' = tmp
    /\ tmp' = Missing
    /\ saving' = "idle"
    /\ run' = [run EXCEPT !.saved = TRUE]
    /\ UNCHANGED <<upstream, statuses, now, reported, resurrectedBefore,
                   nRuns, nEvents, observed, other>>

\* The write or the rename fails: save returns the error, and main logs it.
SaveFails ==
    /\ saving \in {"write", "writing", "rename"}
    /\ saving' = "idle"
    /\ UNCHANGED <<upstream, statuses, file, tmp, now, run, reported,
                   resurrectedBefore, nRuns, nEvents, observed, other>>

\* CheckState::load of another run, while the save is under way.
RacingLoad ==
    /\ saving # "idle"
    /\ observed' = [kind |-> file.kind, state |-> Load(file)]
    /\ observed' # observed
    /\ UNCHANGED <<upstream, statuses, file, tmp, now, run, reported,
                   resurrectedBefore, nRuns, nEvents, saving, other>>

NextSave ==
    \/ CheckUntilSave
    \/ CreateTemp
    \/ WriteTemp
    \/ Rename
    \/ SaveFails
    \/ RacingLoad

SpecSave == InitSave /\ [][NextSave]_vars

----------------------------------------------------------------------------
(* Two runs that overlap: both load the state file before either saves *)

\* The length of the JSON text of a state grows with the shas it holds: every
\* sha is a line of the same length.
JsonSize(f) == Cardinality(f.returned_shas) + Cardinality(f.resurrected_shas)

\* write_all at offset 0 of a file that holds old: the text of the state,
\* followed by the rest of a longer text that was there.
Overwrite(old, state) ==
    IF old.kind = "json" /\ JsonSize(old) > JsonSize(state)
    THEN Corrupt
    ELSE Stored(state)

\* The current versions the overlapping run may be given: those output by
\* the runs that have ended.
PriorVersions == {None} \cup {Some(v) : v \in reported}

\* A run starts while no other is under way: main up to the call of save.
RaceBegin ==
    /\ other = NoOther
    /\ CheckUntilSave

\* A second run starts while the first is saving: it loads the state file
\* the first has loaded.
OtherBegin ==
    /\ nRuns < MaxRuns
    /\ saving # "idle"
    /\ other = NoOther
    /\ \E version \in PriorVersions, mrs \in Listings(upstream), ord \in IterationOrders :
        LET r == Main(run.source, version, mrs, statuses, file, now, {}, ord, FALSE)
        IN other' = [run |-> r, saving |-> IF r.save THEN "write" ELSE "idle"]
    /\ nRuns' = nRuns + 1
    /\ UNCHANGED <<upstream, statuses, file, now, run, reported, resurrectedBefore,
                   nEvents, tmp, saving, observed>>

\* fs::write opens the temp path, which both runs share, and truncates it.
RaceCreate ==
    /\ saving = "write"
    /\ tmp' = Corrupt
    /\ saving' = "writing"
    /\ UNCHANGED <<upstream, statuses, file, now, run, reported, resurrectedBefore,
                   nRuns, nEvents, observed, other>>

OtherCreate ==
    /\ other.saving = "write"
    /\ tmp' = Corrupt
    /\ other' = [other EXCEPT !.saving = "writing"]
    /\ UNCHANGED <<upstream, statuses, file, now, run, reported, resurrectedBefore,
                   nRuns, nEvents, saving, observed>>

\* fs::write writes the JSON text to the file it has opened: the file at
\* the temp path, or the state file when the other run has renamed it there
\* meanwhile.
RaceWrite ==
    /\ saving = "writing"
    /\ IF tmp.kind = "missing"
       THEN file' = Overwrite(file, run.state) /\ tmp' = tmp
       ELSE tmp' = Overwrite(tmp, run.state) /\ file' = file
    /\ saving' = "rename"
    /\ UNCHANGED <<upstream, statuses, now, run, reported, resurrectedBefore,
                   nRuns, nEvents, observed, other>>

OtherWrite ==
    /\ other.saving = "writing"
    /\ IF tmp.kind = "missing"
       THEN file' = Overwrite(file, other.run.state) /\ tmp' = tmp
       ELSE tmp' = Overwrite(tmp, other.run.state) /\ file' = file
    /\ other' = [other EXCEPT !.saving = "rename"]
    /\ UNCHANGED <<upstream, statuses, now, run, reported, resurrectedBefore,
                   nRuns, nEvents, saving, observed>>

\* fs::rename(&temp_path, &path); it fails when the other run has renamed
\* the temp file away, and main logs the error.
RaceRename ==
    /\ saving = "rename"
    /\ IF tmp.kind = "missing"
       THEN UNCHANGED <<file, tmp, run>>
       ELSE /\ file' = tmp
            /\ tmp' = Missing
            /\ run' = [run EXCEPT !.saved = TRUE]
    /\ saving' = "idle"
    /\ UNCHANGED <<upstream, statuses, now, reported, resurrectedBefore,
                   nRuns, nEvents, observed, other>>

OtherRename ==
    /\ other.saving = "rename"
    /\ IF tmp.kind = "missing"
       THEN /\ UNCHANGED <<file, tmp>>
            /\ other' = [other EXCEPT !.saving = "idle"]
       ELSE /\ file' = tmp
            /\ tmp' = Missing
            /\ other' = [other EXCEPT !.saving = "idle", !.run.saved = TRUE]
    /\ UNCHANGED <<upstream, statuses, now, run, reported, resurrectedBefore,
                   nRuns, nEvents, saving, observed>>

NextRace ==
    \/ RaceBegin
    \/ OtherBegin
    \/ RaceCreate
    \/ OtherCreate
    \/ RaceWrite
    \/ OtherWrite
    \/ RaceRename
    \/ OtherRename

SpecRace == InitSave /\ [][NextRace]_vars

----------------------------------------------------------------------------
(* Properties *)

Completed == run.exit = "ok"
Out == Output(run)
ReportedShas == {v.sha : v \in reported}
ResurrectedOut == Range(run.resurrected)

\* C1: a completed run that was given a current version outputs a version
\* equal to it in iid, committed_date and sha.
C1_CurrentEchoed ==
    (Completed /\ run.version # None) => run.version[1] \in OutputSet(run)

\* C2 as claimed: a sha that an earlier run output is output by a later run
\* only as a resurrected version or under the current version's sha.
C2_ReportedOnce ==
    Completed =>
        \A v \in OutputSet(run) :
            v.sha \in ReportedShas =>
                v \in ResurrectedOut \/ IsCurrentSha(v, run.version)

\* C2 as amended: a sha in the returned set that a run loads is output by
\* that run only as a resurrected version or under the current version's sha.
C2_ReturnedNotReported ==
    Completed =>
        \A v \in OutputSet(run) :
            was_returned(run.loaded, v.sha) =>
                v \in ResurrectedOut \/ IsCurrentSha(v, run.version)

\* A run dropped a candidate whose sha it had loaded as returned, and output
\* another version.
C2_Witness ==
    /\ Completed
    /\ OutputSet(run) # {}
    /\ \E v \in Range(run.filtered) :
          /\ was_returned(run.loaded, v.sha)
          /\ ~IsCurrentSha(v, run.version)
          /\ \A w \in OutputSet(run) : w.sha # v.sha

\* C3: a completed run outputs no version triple that an earlier run
\* output, other than the exact triple supplied as its current version.
C3_NoReplay ==
    Completed =>
        \A v \in OutputSet(run) :
            v \in reported => (run.version # None /\ v = run.version[1])

\* C4: no run resurrects a sha that an earlier run resurrected.
C4_ResurrectedAtMostOnce ==
    \A v \in ResurrectedOut : v.sha \notin resurrectedBefore

\* C5: a candidate that was returned before, is not current, was not
\* resurrected before and whose commit has a build status is not resurrected:
\* no output version carries its sha, and its sha is not marked resurrected.
C5_StatusSuppresses ==
    Completed =>
        \A v \in Range(run.filtered) :
            (/\ was_returned(run.loaded, v.sha)
             /\ ~IsCurrentSha(v, run.version)
             /\ ~was_resurrected(run.loaded, v.sha)
             /\ v.sha \in run.stats)
            => /\ \A w \in OutputSet(run) : w.sha # v.sha
               /\ ~was_resurrected(run.state, v.sha)

\* C6: the output of a completed run ascends by the instants its
\* committed_date values denote.
C6_AscendingInstants ==
    Completed =>
        \A i, j \in DOMAIN Out :
            i < j => ParseUtc(Out[i].committed_date) <= ParseUtc(Out[j].committed_date)

\* C7: versions of the output, and of the reducer's result, that denote the
\* same instant stand in the order of their iids.
TiesByIid(s) ==
    \A i, j \in DOMAIN s :
        (i < j /\ ParseUtc(s[i].committed_date) = ParseUtc(s[j].committed_date))
            => s[i].iid <= s[j].iid

C7_TiesByIid == Completed => TiesByIid(Out) /\ TiesByIid(run.filtered)


\* The run that follows the last one on the same upstream snapshot and the
\* same current version, d seconds later, loading the state file f.
Rerun(f, d, fails, ord) ==
    Main(run.source, run.version, run.mrs, run.stats, f, run.at + d, fails, ord, TRUE)

Delays == {0} \cup TickSteps

C9_ClearedSuperset ==
    Completed =>
        \A ord \in IterationOrders :
            LET cleared == Rerun(Missing, 0, run.failed, ord)
            IN cleared.exit = "ok" /\ OutputSet(run) \subseteq OutputSet(cleared)

\* C9 as amended: the same run started from a cleared state completes and
\* outputs every version that the run from the intact state output as new or
\* current, and, for every version that run output as resurrected, the same
\* merge request and commit under the commit's own timestamp.
C9_ClearedCoversIntact ==
    Completed =>
        \A ord \in IterationOrders :
            LET cleared == Rerun(Missing, 0, run.failed, ord)
            IN /\ cleared.exit = "ok"
               /\ Range(run.new) \subseteq OutputSet(cleared)
               /\ \A v \in ResurrectedOut :
                     Version(v.iid, CommitDate(v.sha), v.sha) \in OutputSet(cleared)

\* A run from a state that holds returned shas output a resurrected version
\* and a new one.
C9_Witness ==
    /\ Completed
    /\ run.loaded.returned_shas # {}
    /\ ResurrectedOut # {}
    /\ run.new # <<>>

\* C10: in the state file, every resurrected sha is a returned sha.
C10_ResurrectedSubsetReturned ==
    file.resurrected_shas \subseteq file.returned_shas

\* The state file holds a resurrected sha.
C10_Witness ==
    file.kind = "json" /\ file.resurrected_shas # {}

\* A step of the model that is a run of main.
IsRun == nRuns' = nRuns + 1

\* C11 as claimed: no run removes a sha from the returned or the resurrected
\* set that the state file holds.
C11_AppendOnly ==
    [][IsRun => /\ file.returned_shas \subseteq file'.returned_shas
                /\ file.resurrected_shas \subseteq file'.resurrected_shas]_vars

\* C11 as amended: no run removes a sha from the sets that it could load from
\* the state file; after a run that could not read the file and saved, the
\* file holds that run's shas only.
C11_LoadedKept ==
    [][IsRun => /\ Load(file).returned_shas \subseteq file'.returned_shas
                /\ Load(file).resurrected_shas \subseteq file'.resurrected_shas]_vars

\* A run loaded returned shas, added to them and saved.
C11_Witness ==
    /\ Completed
    /\ run.saved
    /\ run.loaded.returned_shas # {}
    /\ run.state # run.loaded
    /\ file = Stored(run.state)

Ran == run.exit # "none"

\* C12: a run that finds the state file missing, unreadable or unparsable
\* starts from the empty state and does not fail for it: it completes and
\* writes one payload unless a call to the adapter failed.
C12_LoadNeverFails ==
    (Ran /\ run.load # "json") =>
        /\ run.loaded = EmptyState
        /\ run.exit = "fail" => run.failed # {}
        /\ Completed => Len(run.stdout) = 1

\* A run found a state file that it could not read or parse, and output
\* versions.
C12_Witness ==
    /\ Completed
    /\ run.load \in {"unreadable", "corrupt"}
    /\ Out # <<>>

\* C13: a run whose save fails completes, is in everything but the save the
\* run that the same input gives when the save succeeds, and leaves the
\* state file as it found it.
C13_SaveFailureAbsorbed ==
    [][(IsRun /\ run'.save /\ ~run'.saved) =>
          /\ run'.exit = "ok"
          /\ file' = file
          /\ \E ord \in IterationOrders :
                Main(run'.source, run'.version, run'.mrs, run'.stats, file,
                     run'.at, run'.failed, ord, TRUE) = [run' EXCEPT !.saved = TRUE]]_vars

\* A run that loaded returned shas output versions and failed to save; the
\* state file holds what the run loaded.
C13_Witness ==
    /\ Completed
    /\ run.save /\ ~run.saved
    /\ Out # <<>>
    /\ run.loaded.returned_shas # {}
    /\ file = Stored(run.loaded)

\* C14: a run in which a call to the adapter failed ends in failure, writes
\* nothing to standard output and leaves the state file as it found it.
C14_AdapterFailureAborts ==
    [][(IsRun /\ run'.failed # {}) =>
          /\ run'.exit = "fail"
          /\ run'.stdout = <<>>
          /\ file' = file]_vars

\* C15: a run writes at most one payload to standard output, a list of
\* versions; a run that completes writes exactly one and a run that fails
\* writes none.
C15_OnePayloadOrNone ==
    Ran =>
        /\ Len(run.stdout) <= 1
        /\ Completed => Len(run.stdout) = 1
        /\ run.exit = "fail" => run.stdout = <<>>
        /\ \A k \in DOMAIN run.stdout :
              \A i \in DOMAIN run.stdout[k] :
                  DOMAIN run.stdout[k][i] = {"iid", "committed_date", "sha"}

\* A run over merge requests failed in a call to the adapter and wrote
\* nothing.
C15_Witness ==
    /\ run.exit = "fail"
    /\ run.mrs # <<>>
    /\ run.failed # {}
    /\ run.stdout = <<>>

\* The current version of the last run is dated in 2099 or later, or less
\* than 120 seconds from the time of the run.
InCooldown ==
    /\ run.version # None
    /\ LET dt == ParseUtc(run.version[1].committed_date)
       IN IsFarFuture(dt) \/ Abs(run.at - dt) < 120

\* The candidates of the last run that the state it loaded holds as returned
\* and that do not carry the current sha.
ReturnedNotCurrent ==
    {v \in Range(run.filtered) :
        was_returned(run.loaded, v.sha) /\ ~IsCurrentSha(v, run.version)}

\* C16: a completed run in cooldown resurrects nothing: it outputs no
\* resurrected version, leaves the resurrected set as loaded, and outputs no
\* version for a returned candidate that is not current.
C16_Cooldown ==
    (Completed /\ InCooldown) =>
        /\ ~run.enabled
        /\ ResurrectedOut = {}
        /\ run.state.resurrected_shas = run.loaded.resurrected_shas
        /\ \A v \in ReturnedNotCurrent : \A w \in OutputSet(run) : w.sha # v.sha

\* A run in cooldown dropped a returned candidate that is not current, was
\* not resurrected before and has no build status.
C16_Witness ==
    /\ Completed
    /\ InCooldown
    /\ \E v \in ReturnedNotCurrent :
          ~was_resurrected(run.loaded, v.sha) /\ v.sha \notin run.stats

\* The source of the last run sets disable_resurrection to true, or the
\* environment sets DISABLE_RESURRECTION to true.
ExplicitlyDisabled ==
    \/ run.source.disable_resurrection = Some(TRUE)
    \/ run.source.env_disable_resurrection

FirstRun == Completed /\ run.version = None /\ run.loaded = EmptyState

\* The versions of the merge requests of the last run that pass the
\* candidate filter.
Candidates == Range(all_versions(run.source, run.mrs, run.at))

\* C18: a first run outputs exactly the candidates that pass the candidate
\* filter, each once, oldest commit first, and afterwards the state file
\* holds the sha of every one of them as returned.
C18_FirstRun ==
    FirstRun =>
        /\ OutputSet(run) = Candidates
        /\ Len(Out) = Len(all_versions(run.source, run.mrs, run.at))
        /\ \A i, j \in DOMAIN Out :
              i < j => ParseUtc(Out[i].committed_date) <= ParseUtc(Out[j].committed_date)
        /\ \A v \in Candidates : v.sha \in file.returned_shas

\* The first run output two merge requests on different commits and saved
\* its state.
EmittedTwo ==
    /\ FirstRun
    /\ run.saved
    /\ Len(Out) = 2
    /\ Out[1].sha # Out[2].sha

\* The versions of the last output with the latest commit.
Latest ==
    {a \in OutputSet(run) :
        \A b \in OutputSet(run) :
            ParseUtc(b.committed_date) <= ParseUtc(a.committed_date)}

\* C19: after a first run that output requests A and B, A the later commit,
\* and saved its state, a run with current version A over the same merge
\* requests and statuses outputs exactly A.
C19_SecondRunOnlyCurrent ==
    EmittedTwo =>
        \A a \in Latest, d \in Delays, ord \in IterationOrders :
            Output(Main(run.source, Some(a), run.mrs, run.stats,
                        Stored(run.state), run.at + d, {}, ord, TRUE)) = <<a>>

\* C20: commit a was output by run 1, has no build status and is not the
\* current version of runs 2 to 4; when it is a candidate of run 4 and
\* resurrection is enabled there, run 4 outputs it as a resurrected version
\* under the time of run 4, and the state file holds it as resurrected.
C20_ResurrectedAtThirdRun ==
    (/\ nRuns = 4
     /\ Completed
     /\ run.enabled
     /\ \E v \in Range(run.filtered) : v.sha = "a")
    => /\ Version(1, ToRfc3339Millis(run.at), "a") \in ResurrectedOut
       /\ "a" \in file.resurrected_shas

\* A run that output a version that does not carry the current sha: a new or
\* a resurrected version.
Productive(r) ==
    r.exit = "ok" /\ \E v \in OutputSet(r) : ~IsCurrentSha(v, r.version)

UpstreamShas == {upstream[i].sha : i \in Iids} \ {NoSha}

StateSize(f) == Cardinality(f.returned_shas) + Cardinality(f.resurrected_shas)

WithHead == {mr \in Range(run.mrs) : mr.sha # NoSha}
CandidateIids == {v.iid : v \in Range(run.candidates)}

\* The open merge requests of the project that have a head commit.
OpenWithHead == {i \in Iids : upstream[i].open /\ upstream[i].sha # NoSha}

\* The max_age_days of the last run's source.
MaxAge ==
    IF run.source.max_age_days = None THEN 90 ELSE run.source.max_age_days[1]

\* C22: without a path filter, an open merge request with a head commit is a
\* candidate exactly if it was last updated not before the run's time minus
\* max_age_days days, whatever the date of its commit and whatever the
\* updated_after filter of the query.
C22_AgeFilter ==
    (Completed /\ run.source.paths = None) =>
        \A i \in OpenWithHead :
            i \in CandidateIids <=> upstream[i].updated_at >= run.at - MaxAge * Day

\* Under max_age_days = 1 a run whose query reached back 200 days kept a
\* merge request updated within the day whose commit is older, and dropped
\* one updated just before the cutoff whose commit is not older than the
\* cutoff.
C22_Witness ==
    /\ Completed
    /\ run.source.max_age_days = Some(1)
    /\ run.version = Some(OldVersion)
    /\ \E mr \in WithHead :
          /\ mr.iid \in CandidateIids
          /\ ParseUtc(CommitDate(mr.sha)) < run.at - Day
    /\ \E mr \in WithHead :
          /\ mr.iid \notin CandidateIids
          /\ ParseUtc(CommitDate(mr.sha)) >= run.at - Day

\* The patterns of the last run's source: none when paths is absent.
Patterns == IF run.source.paths = None THEN {} ELSE Range(run.source.paths[1])

\* C23: a merge request that passes the age filter is a candidate exactly if
\* the source has no patterns (paths absent or empty) or one of its changed
\* paths matches one of the patterns.
C23_PathFilter ==
    (Completed /\ run.version = None) =>
        \A mr \in WithHead :
            mr.updated_at >= run.at - MaxAge * Day =>
                (mr.iid \in CandidateIids <=>
                    \/ Patterns = {}
                    \/ \E pattern \in Patterns, path \in Diffs(mr.iid) :
                          PatternMatches(pattern, path))

\* The state file as the last run loaded it, and as its save leaves it.
BeforeSave ==
    [kind |-> run.load, returned_shas |-> run.loaded.returned_shas,
     resurrected_shas |-> run.loaded.resurrected_shas]
AfterSave == Stored(run.state)

\* C24: while a save is under way the canonical path holds the complete
\* state from before the save or the complete state it writes, and a load
\* that races with the save found one of the two, never an unparsable file.
C24_AtomicReplace ==
    /\ saving # "idle" => file = BeforeSave
    /\ (Ran /\ run.save) => file \in {BeforeSave, AfterSave}
    /\ file.kind # "corrupt"
    /\ observed # Nothing =>
          /\ observed.kind # "corrupt"
          /\ observed.state \in {run.loaded, run.state}

\* A load raced with a save that replaces a state file, while the temp file
\* held a part of the new state.
C24_Witness ==
    /\ saving = "writing"
    /\ tmp = Corrupt
    /\ observed # Nothing
    /\ observed.kind = "json"
    /\ run.state # run.loaded

\* C25: every version a run outputs as resurrected has a sha that the state
\* the run loaded holds as returned and not as resurrected and that is not
\* the current sha, and the run is neither in cooldown nor under an explicit
\* disable.
C25_ResurrectionEligibility ==
    \A v \in ResurrectedOut :
        /\ v.sha \in run.loaded.returned_shas
        /\ v.sha \notin run.loaded.resurrected_shas
        /\ run.version # None => v.sha # run.version[1].sha
        /\ ~InCooldown
        /\ ~ExplicitlyDisabled

\* A run with a current version resurrected a version while the state it
\* loaded held another sha as resurrected.
C25_Witness ==
    /\ Completed
    /\ run.version # None
    /\ ResurrectedOut # {}
    /\ run.loaded.resurrected_shas # {}

Reduced == run.exit = "reduced"
Current == run.version[1]
Instant(v) == ParseUtc(v.committed_date)

\* The window of the last run in days: commit_date_window_days, else
\* max_age_days, else 90.
WindowDays ==
    IF run.source.commit_date_window_days # None
    THEN run.source.commit_date_window_days[1]
    ELSE MaxAge

\* Eligibility as the reducer is specified: the current entity, or a later
\* commit instant, or another entity whose commit instant is less than the
\* window away from the current version's.
Eligible(c) ==
    \/ c.iid = Current.iid
    \/ Instant(c) > Instant(Current)
    \/ /\ c.iid # Current.iid
       /\ Instant(c) - Instant(Current) < WindowDays * Day
       /\ Instant(Current) - Instant(c) < WindowDays * Day

EligibleCandidates == {c \in Range(run.candidates) : Eligible(c)}

\* C27: the reducer's result holds at most one version per entity id, and
\* each is an eligible candidate than which no eligible candidate of the
\* entity is later, or the current version re-inserted for an entity without
\* eligible candidates.
C27_LatestPerEntity ==
    Reduced =>
        /\ \A i, j \in DOMAIN run.filtered :
              i # j => run.filtered[i].iid # run.filtered[j].iid
        /\ \A v \in Range(run.filtered) :
              \/ /\ v \in EligibleCandidates
                 /\ \A w \in EligibleCandidates :
                       w.iid = v.iid => Instant(w) <= Instant(v)
              \/ /\ v = Current
                 /\ \A w \in EligibleCandidates : w.iid # v.iid

\* The reducer dropped an earlier eligible candidate of an entity for a
\* later one.
C27_Witness ==
    /\ Reduced
    /\ \E v \in Range(run.filtered), w \in EligibleCandidates :
          /\ w.iid = v.iid
          /\ Instant(w) < Instant(v)
          /\ w \notin Range(run.filtered)

\* C28: a candidate that is the only one of its entity is kept by the
\* reducer exactly when it is of the current entity, or its commit instant is
\* later than the current version's, or it is of another entity and the two
\* instants are less than the window (commit_date_window_days, else
\* max_age_days, else 90 days) apart; instants are compared, not the dates as
\* written.
C28_Eligibility ==
    Reduced =>
        \A c \in Range(run.candidates) :
            (\A w \in Range(run.candidates) : w.iid = c.iid => w = c)
                => (c \in Range(run.filtered) <=> Eligible(c))

\* Under the default window of 90 days a candidate of another entity 91 days
\* older than the current version was dropped and, in another state, one 89
\* days older was kept; the witness is the dropped one.
C28_Witness ==
    /\ Reduced
    /\ WindowDays = 90
    /\ \E c \in Range(run.candidates) :
          /\ c.iid # Current.iid
          /\ Instant(Current) - Instant(c) = 91 * Day
          /\ c \notin Range(run.filtered)

\* The 89-day-old candidate of another entity kept under the default window.
C28_Kept89 ==
    /\ Reduced
    /\ WindowDays = 90
    /\ \E c \in Range(run.filtered) :
          /\ c.iid # Current.iid
          /\ Instant(Current) - Instant(c) = 89 * Day

\* A candidate of another entity at the current version's instant, written
\* with another offset, dropped under a window of zero days.
C28_EqualInstants ==
    /\ Reduced
    /\ WindowDays = 0
    /\ \E c \in Range(run.candidates) :
          /\ c.iid # Current.iid
          /\ Instant(c) = Instant(Current)
          /\ c.committed_date # Current.committed_date
          /\ c \notin Range(run.filtered)

\* C29: when no candidate of the current version's entity is left after the
\* reduction, the result holds the current version as supplied; with no
\* candidates at all the result is the current version alone.
C29_CurrentReinserted ==
    Reduced =>
        /\ (\A c \in Range(run.candidates) : c.iid # Current.iid)
              => \E i \in DOMAIN run.filtered : run.filtered[i] = Current
        /\ run.candidates = <<>> => run.filtered = <<Current>>

\* The current version was re-inserted beside a version of another entity.
C29_Witness ==
    /\ Reduced
    /\ \A c \in Range(run.candidates) : c.iid # Current.iid
    /\ Current \in Range(run.filtered)
    /\ Len(run.filtered) = 2

\* The candidates of the current entity with a later commit instant and
\* another sha.
NewerOfCurrent ==
    {c \in Range(run.candidates) :
        /\ c.iid = Current.iid
        /\ Instant(c) > Instant(Current)
        /\ c.sha # Current.sha}

\* C30: when a candidate of the current entity has a later commit instant
\* and another sha, the result holds exactly one version of that entity, and
\* it is that newer candidate, not the current version.
C30_NewerReplacesCurrent ==
    (Reduced /\ NewerOfCurrent # {}) =>
        /\ Cardinality({i \in DOMAIN run.filtered :
                           run.filtered[i].iid = Current.iid}) = 1
        /\ \A v \in Range(run.filtered) :
              v.iid = Current.iid => v \in NewerOfCurrent

\* The current version was among the candidates beside a newer commit of its
\* entity, and only the newer one is in the result.
C30_Witness ==
    /\ Reduced
    /\ NewerOfCurrent # {}
    /\ Current \in Range(run.candidates)
    /\ Current \notin Range(run.filtered)

\* The orderings of a list.
Orderings(s) ==
    {[i \in DOMAIN s |-> s[p[i]]] :
        p \in {q \in [DOMAIN s -> DOMAIN s] :
                 \A i, j \in DOMAIN s : i # j => q[i] # q[j]}}

\* C31: the reducer's result is the same list, element by element, for every
\* ordering of the same candidates and every iteration order of the map,
\* candidates with equal commit dates included.
C31_OrderIndependent ==
    Reduced =>
        \A p \in Orderings(run.candidates), ord \in IterationOrders :
            filter_versions(p, run.version,
                commit_date_window_days(run.source), ord) = run.filtered

\* The same with the ties left out: holds when the commit instants of the
\* candidates and of the current version differ pairwise.
C31_DistinctInstants ==
    (/\ Reduced
     /\ \A i, j \in DOMAIN run.candidates :
           i # j => Instant(run.candidates[i]) # Instant(run.candidates[j])
     /\ \A c \in Range(run.candidates) :
           c.iid # Current.iid => Instant(c) # Instant(Current))
        => C31_OrderIndependent

\* The versions of the last run's output that are candidates of the run, and
\* those that are not: the latter carry the date of the run.
NewOut == {v \in OutputSet(run) : v \in Range(run.filtered)}
ResurrectedAtRun == OutputSet(run) \ Range(run.filtered)
CurrentSha == IF run.version = None THEN NoSha ELSE run.version[1].sha

\* C32: a completed run whose save succeeds persists the loaded emitted set
\* plus the shas of the new output versions that do not carry the current
\* sha, and the loaded resurrected set plus the shas of the versions output
\* as resurrected; the current sha is not added to the emitted set.
C32_StateUpdate ==
    (Completed /\ run.saved) =>
        /\ run.state.returned_shas =
              run.loaded.returned_shas
                 \cup {v.sha : v \in {w \in NewOut : w.sha # CurrentSha}}
        /\ run.state.resurrected_shas =
              run.loaded.resurrected_shas \cup {v.sha : v \in ResurrectedAtRun}
        /\ (run.version # None /\ CurrentSha \notin run.loaded.returned_shas)
              => CurrentSha \notin run.state.returned_shas

\* A run saved after an output that holds the current version and a new
\* version.
C32_Witness ==
    /\ Completed /\ run.saved
    /\ \E v \in NewOut : v.sha = CurrentSha
    /\ \E v \in NewOut : v.sha # CurrentSha

\* A run saved after an output that holds a resurrected version.
C32_SavedResurrected ==
    Completed /\ run.saved /\ ResurrectedAtRun # {}

\* C33 as claimed: a run changes the state file exactly when it added a sha
\* to the emitted or to the resurrected set.
C33_WrittenIffAdded ==
    [][IsRun => ((file' # file) <=> (run'.state # run'.loaded))]_vars

\* C33 amended: a run changes the state file exactly when it added a sha to
\* the emitted or to the resurrected set and its write succeeded, and then
\* the file holds the state of the run; every other run, one that added
\* nothing, returned early or failed to write, leaves the file as it was.
C33_WrittenIffAddedAndSaved ==
    [][IsRun => /\ (file' # file) <=> (run'.state # run'.loaded /\ run'.saved)
                /\ (file' # file) => file' = Stored(run'.state)]_vars

\* A run added a sha and wrote the state file.
C33_Witness ==
    /\ Completed
    /\ run.state # run.loaded
    /\ run.saved
    /\ file = Stored(run.state)

\* A run on a project without open merge requests returned early and left a
\* state file with shas as it was.
C33_EarlyReturn ==
    /\ Completed
    /\ run.mrs = <<>>
    /\ file.kind = "json"
    /\ file.returned_shas # {}
    /\ ~run.save

\* The listings of the same merge requests on the same head commits as the
\* last run's with other last-modified timestamps, all still returned by the
\* query and inside the age window.
ActivityAts ==
    {at \in {run.at, run.at - 60} :
        /\ at >= updated_after(run.source, run.version, run.at)
        /\ at >= run.at - MaxAge * Day}

Touched ==
    {q \in [DOMAIN run.mrs ->
              {[iid |-> run.mrs[i].iid, sha |-> run.mrs[i].sha, updated_at |-> at] :
                  i \in DOMAIN run.mrs, at \in ActivityAts}] :
        /\ \A i, j \in DOMAIN q : i # j => q[i].iid # q[j].iid
        /\ \A i, j \in DOMAIN q : i < j => q[i].updated_at >= q[j].updated_at}

InsideWindow ==
    \A i \in DOMAIN run.mrs : run.mrs[i].updated_at >= run.at - MaxAge * Day

\* The outputs a run on listing q can write, all else as in the last run.
OutputsOn(q) ==
    {Main(run.source, run.version, q, run.stats, Stored(run.loaded), run.at,
          run.failed, ord, TRUE).stdout : ord \in IterationOrders}

\* C34: the new versions of a run carry the commit's date; a run on a
\* snapshot that differs from the last run's only in last-modified
\* timestamps, with the same state and current version, writes the same
\* output; and a version output as new carries the current sha or a sha that
\* the loaded state does not hold as emitted.
C34_ActivityIgnored ==
    (Completed /\ run.mrs # <<>> /\ InsideWindow) =>
        /\ \A v \in NewOut :
              run.version = Some(v) \/ v.committed_date = CommitDate(v.sha)
        /\ \A q \in Touched : run.stdout \in OutputsOn(q)
        /\ \A v \in NewOut :
              v.sha \in run.loaded.returned_shas => v.sha = CurrentSha

\* The same with the outputs compared as sets of versions.
C34_SameVersions ==
    (Completed /\ run.mrs # <<>> /\ InsideWindow) =>
        /\ \A v \in NewOut :
              run.version = Some(v) \/ v.committed_date = CommitDate(v.sha)
        /\ \A q \in Touched :
              \E out \in OutputsOn(q) : Range(out[1]) = OutputSet(run)
        /\ \A v \in NewOut :
              v.sha \in run.loaded.returned_shas => v.sha = CurrentSha

\* The last run was given a malformed configuration: a URI that does not
\* parse, or a current version whose committed_date does not.
MalformedUriGiven == ~UrlParses(run.source.uri)
UnparsableVersionGiven ==
    run.version # None /\ ~Parses(run.version[1].committed_date)

\* C35: a run on a malformed URI or on a current version with an unparsable
\* committed_date fails without having made any call to the adapter, the
\* construction of the client with its authentication included.
C35_ConfigBeforeNetwork ==
    (Ran /\ (MalformedUriGiven \/ UnparsableVersionGiven)) =>
        run.exit = "fail" /\ run.stdout = <<>> /\ run.calls = {}

\* The part for the URI: a run on a malformed URI fails without any call.
C35_UriBeforeNetwork ==
    (Ran /\ MalformedUriGiven) =>
        run.exit = "fail" /\ run.stdout = <<>> /\ run.calls = {}

\* A run on an unparsable current version fails, having built the client.
C35_VersionAfterClient ==
    (Ran /\ ~MalformedUriGiven /\ UnparsableVersionGiven) =>
        run.exit = "fail" /\ run.stdout = <<>> /\ run.calls \subseteq {"auth"}

\* The shas that the run before the step output for the first time.
FirstReturned ==
    {v.sha : v \in OutputSet(run)} \ {v.sha : v \in reported}

\* C36: a run that starts less than two hours after the run before it
\* resurrects no version that the run before returned for the first time.
C36_StuckAfterTwoHours ==
    [][(IsRun /\ run.exit = "ok" /\ run'.at - run.at < 2 * 60 * 60) =>
          \A v \in Range(run'.resurrected) : v.sha \notin FirstReturned]_vars

\* The versions of the reduced set of the last run that are not the current
\* version and whose (iid, sha) pair no earlier run has output.
NeverOutput ==
    {v \in Range(run.filtered) :
        /\ run.version # Some(v)
        /\ \A w \in reported : ~(w.iid = v.iid /\ w.sha = v.sha)}

\* C37: in every completed run, every version of the reduced set that is not
\* the current version and whose (iid, sha) pair no earlier run has output
\* is in the output of the run, also when its sha was output for another
\* merge request and also when the run is in cooldown.
C37_NoUnderReporting ==
    Completed =>
        \A v \in NeverOutput :
            \E o \in OutputSet(run) : o.iid = v.iid /\ o.sha = v.sha

\* The same for the versions whose sha no earlier run has output.
C37_NewShaReported ==
    Completed =>
        \A v \in NeverOutput :
            (\A w \in reported : w.sha # v.sha) =>
                \E o \in OutputSet(run) : o.iid = v.iid /\ o.sha = v.sha

\* The shas that some run has written to its standard output.
Delivered == {v.sha : v \in reported \cup OutputSet(run)}

\* C38: when no run is under way, every sha in the persisted emitted set is
\* in the standard output of some run, also when runs are stopped between
\* the save and the println.
C38_PersistedWasDelivered ==
    saving = "idle" => Stored(file).returned_shas \subseteq Delivered

\* Two overlapping runs have ended.
BothDone ==
    /\ saving = "idle" /\ run.exit = "ok"
    /\ other.saving = "idle" /\ other.run.exit = "ok"

\* After two overlapping runs the state file holds every sha that either
\* run marked.
C39_NoMarkLost ==
    BothDone =>
        /\ run.state.returned_shas \cup other.run.state.returned_shas
              \subseteq Load(file).returned_shas
        /\ run.state.resurrected_shas \cup other.run.state.resurrected_shas
              \subseteq Load(file).resurrected_shas

\* After two overlapping runs the state file is not invalid.
C39_FileValid == BothDone => file.kind # "corrupt"

\* C39: after two runs that overlap (both load the state file before either
\* saves) have ended, the persisted emitted and resurrected sets hold every
\* sha that either run marked, and the state file is not invalid.
C39_OverlapKeepsMarks == C39_NoMarkLost /\ C39_FileValid

====
